---- MODULE Spec2Model ----
(***************************************************************************)
(* State-machine model of the BovineScanner component                      *)
(* (src/src/components/BovineScanner.tsx): the component's useState cells, *)
(* the object-URL registry of the browser, the pending setTimeout          *)
(* callbacks and the toast channel, with one action per event handler.     *)
(*                                                                         *)
(* The UI event loop is single threaded and React commits the state        *)
(* updates of a handler before the next event is dispatched, so every      *)
(* handler is one atomic action reading the committed state.               *)
(***************************************************************************)
EXTENDS Integers, Sequences, FiniteSets, TLC

VARIABLES selectedBreed, selectedFile, previewUrl, scanStage, analysisResult,
          isDragging, timers, urls, event, toast, scoreView

vars == <<selectedBreed, selectedFile, previewUrl, scanStage, analysisResult,
          isDragging, timers, urls, event, toast, scoreView>>

(* ------------------------------ bounds --------------------------------- *)

\* Number of object URLs URL.createObjectURL may hand out in one run.
MaxUrls == 3

\* Math.random() is drawn from the grid k / RandomSteps, k in 0..RandomSteps-1.
RandomSteps == 20

\* Largest number of files carried by one drop event.
MaxDropFiles == 2

\* The score display is probed with the scores -ScoreMargin..100+ScoreMargin.
ScoreMargin == 20

(* ----------------------------- constants ------------------------------- *)

\* JavaScript null (useState<File | null>(null), useState<AnalysisResult | null>(null)).
null == [null |-> TRUE]

\* The empty string '' that previewUrl starts with; object URLs are 1, 2, ...
NoUrl == 0

\* The empty string '' that selectedBreed starts with.
NoBreed == ""

\* breeds[i].value
breeds == {"sahiwal", "murrah", "gir", "holstein"}

sampleResults ==
  [b \in breeds |->
     CASE b = "sahiwal"  -> [height |-> 142, length |-> 155, score |-> 87,
                             breed |-> "Sahiwal", confidence |-> 94]
       [] b = "murrah"   -> [height |-> 135, length |-> 148, score |-> 92,
                             breed |-> "Murrah Buffalo", confidence |-> 96]
       [] b = "gir"      -> [height |-> 138, length |-> 150, score |-> 85,
                             breed |-> "Gir", confidence |-> 89]
       [] b = "holstein" -> [height |-> 145, length |-> 160, score |-> 90,
                             breed |-> "Holstein Friesian", confidence |-> 92]]

\* 10 * 1024 * 1024, the size limit of handleFileSelect.
MaxFileSize == 10 * 1024 * 1024

\* The literal 'image/' as a sequence of characters.
ImagePrefix == <<"i", "m", "a", "g", "e", "/">>

(* ------------------------------- inputs -------------------------------- *)

\* file.type values, as sequences of characters.
TypeImagePng == <<"i", "m", "a", "g", "e", "/", "p", "n", "g">>
TypeTextPlain == <<"t", "e", "x", "t", "/", "p", "l", "a", "i", "n">>
TypeXImage == <<"x", "-", "i", "m", "a", "g", "e", "/", "x">>
TypeEmpty == <<>>

FileTypes == {TypeImagePng, TypeTextPlain, TypeXImage, TypeEmpty}

\* file.size values: a small file, the limit itself, one byte over.
FileSizes == {1, MaxFileSize, MaxFileSize + 1}

Files == [type : FileTypes, size : FileSizes]

(* --------------------------- pure functions ---------------------------- *)

\* String.prototype.startsWith
StartsWith(s, p) == Len(s) >= Len(p) /\ SubSeq(s, 1, Len(p)) = p

MathMax(a, b) == IF a >= b THEN a ELSE b
MathMin(a, b) == IF a <= b THEN a ELSE b

\* Math.round of the rational num/den (den > 0): floor(num/den + 1/2).
MathRound(num, den) == (2 * num + den) \div (2 * den)

\* Fault injection for variation: the jitter is scaled by 20 instead of 10.
variation_wide(k) == MathRound(20 * k - 10 * RandomSteps, RandomSteps)

\* variation(): Math.round((Math.random() - 0.5) * 10) for Math.random() = k/RandomSteps.
variation(k) == MathRound(10 * k - 5 * RandomSteps, RandomSteps)

\* The values variation() can return.
VariationValues == {variation(k) : k \in 0..(RandomSteps - 1)}

\* sampleResults[selectedBreed] || sampleResults.sahiwal
BaseResult(b) ==
  IF b \in DOMAIN sampleResults THEN sampleResults[b] ELSE sampleResults["sahiwal"]

\* Fault injection for FinalResults: the floors and the clamp are left out and
\* the jitter replaces the baseline instead of being added to it.
FinalResults_unclamped(result) ==
  [height : VariationValues, length : VariationValues, score : VariationValues,
   breed : {result.breed}, confidence : {result.confidence}]

\* The values finalResult = { ...result, height: ..., length: ..., score: ... }
\* can take: each of the three fields makes its own variation() call.
FinalResults(result) ==
  [height : {MathMax(120, result.height + v) : v \in VariationValues},
   length : {MathMax(140, result.length + v) : v \in VariationValues},
   score  : {MathMax(70, MathMin(100, result.score + v)) : v \in VariationValues},
   breed : {result.breed},
   confidence : {result.confidence}]

\* Fault injection for IsImage: the type is searched for 'image/' anywhere.
IsImage_includes(file) ==
  \E i \in 1..Len(file.type) :
     /\ i + Len(ImagePrefix) - 1 <= Len(file.type)
     /\ SubSeq(file.type, i, i + Len(ImagePrefix) - 1) = ImagePrefix

\* file.type.startsWith('image/')
IsImage(file) == StartsWith(file.type, ImagePrefix)

\* Fault injection for TooLarge: a file of exactly 10 MiB is turned down.
TooLarge_inclusive(file) == file.size >= 10 * 1024 * 1024

\* Fault injection for TooLarge: the limit is 100 MiB instead of 10 MiB.
TooLarge_100mib(file) == file.size > 100 * 1024 * 1024

\* file.size > 10 * 1024 * 1024
TooLarge(file) == file.size > MaxFileSize

\* Fault injection for CanStart: the breed is not looked at.
CanStart_fileOnly == selectedFile # null

\* The negation of (!selectedFile || !selectedBreed).
CanStart == selectedFile # null /\ selectedBreed # NoBreed

\* Fault injection for getScoreLabel: strict comparisons.
getScoreLabel_strict(score) ==
  IF score > 90 THEN "Excellent"
  ELSE IF score > 80 THEN "Good"
  ELSE IF score > 70 THEN "Average"
  ELSE "Poor"

getScoreLabel(score) ==
  IF score >= 90 THEN "Excellent"
  ELSE IF score >= 80 THEN "Good"
  ELSE IF score >= 70 THEN "Average"
  ELSE "Poor"

getScoreColor(score) ==
  IF score >= 90 THEN "text-success"
  ELSE IF score >= 80 THEN "text-primary"
  ELSE IF score >= 70 THEN "text-yellow-600"
  ELSE "text-destructive"

\* The score card of the results view: the number, the class of its colour
\* and the label; null when scanStage === 'results' && analysisResult fails.
RenderedScore(stage, result) ==
  IF stage = "results" /\ result # null
    THEN [score |-> result.score,
          color |-> getScoreColor(result.score),
          label |-> getScoreLabel(result.score)]
    ELSE null

(* ----------------------------- the state ------------------------------- *)

NoToast == "none"

\* What the last dispatched event was, and the file it handed to
\* handleFileSelect (null when handleFileSelect was not called).
Event(op, file) == [op |-> op, file |-> file]

Init ==
  /\ selectedBreed = NoBreed
  /\ selectedFile = null
  /\ previewUrl = NoUrl
  /\ scanStage = "upload"
  /\ analysisResult = null
  /\ isDragging = FALSE
  /\ timers = <<>>
  /\ urls = <<>>
  /\ event = Event("mount", null)
  /\ toast = NoToast
  /\ scoreView = null

(* ------------------------------ handlers ------------------------------- *)

\* Fault injection for handleFileSelect: the file is stored before it is
\* validated.
handleFileSelect_storeFirst(file) ==
  /\ selectedFile' = file
  /\ IF ~IsImage(file)
       THEN toast' = "Invalid File Type" /\ UNCHANGED <<previewUrl, urls>>
       ELSE IF TooLarge(file)
         THEN toast' = "File Too Large" /\ UNCHANGED <<previewUrl, urls>>
         ELSE /\ Len(urls) < MaxUrls
              /\ urls' = Append(urls, 0)
              /\ previewUrl' = Len(urls) + 1
              /\ toast' = "Image Uploaded"

\* The body of handleFileSelect(file).  urls[u] counts the calls of
\* URL.revokeObjectURL(u); URL.createObjectURL returns the next unused URL.
handleFileSelect(file) ==
  IF ~IsImage(file)
    THEN toast' = "Invalid File Type" /\ UNCHANGED <<selectedFile, previewUrl, urls>>
    ELSE IF TooLarge(file)
      THEN toast' = "File Too Large" /\ UNCHANGED <<selectedFile, previewUrl, urls>>
      ELSE /\ Len(urls) < MaxUrls
           /\ selectedFile' = file
           /\ urls' = Append(urls, 0)
           /\ previewUrl' = Len(urls) + 1
           /\ toast' = "Image Uploaded"

\* <input type="file" onChange=...>, rendered in the upload view only.
onChange(file) ==
  /\ scanStage = "upload"
  /\ handleFileSelect(file)
  /\ event' = Event("onChange", file)
  /\ UNCHANGED <<selectedBreed, scanStage, analysisResult, isDragging, timers>>
  /\ scoreView' = RenderedScore(scanStage', analysisResult')

\* onDrop of the upload zone: n files were dropped, first is files[0].
handleDrop(n, first) ==
  /\ scanStage = "upload"
  /\ isDragging' = FALSE
  /\ IF n > 0
       THEN handleFileSelect(first) /\ event' = Event("handleDrop", first)
       ELSE /\ toast' = NoToast
            /\ event' = Event("handleDrop", null)
            /\ UNCHANGED <<selectedFile, previewUrl, urls>>
  /\ UNCHANGED <<selectedBreed, scanStage, analysisResult, timers>>
  /\ scoreView' = RenderedScore(scanStage', analysisResult')

handleDragOver ==
  /\ scanStage = "upload"
  /\ isDragging' = TRUE
  /\ event' = Event("handleDragOver", null)
  /\ toast' = NoToast
  /\ UNCHANGED <<selectedBreed, selectedFile, previewUrl, scanStage,
                 analysisResult, timers, urls>>
  /\ scoreView' = RenderedScore(scanStage', analysisResult')

handleDragLeave ==
  /\ scanStage = "upload"
  /\ isDragging' = FALSE
  /\ event' = Event("handleDragLeave", null)
  /\ toast' = NoToast
  /\ UNCHANGED <<selectedBreed, selectedFile, previewUrl, scanStage,
                 analysisResult, timers, urls>>
  /\ scoreView' = RenderedScore(scanStage', analysisResult')

\* Fault injection for setSelectedBreed: the Select is rendered in every view.
setSelectedBreed_anyStage(b) ==
  /\ selectedBreed' = b
  /\ event' = Event("setSelectedBreed", null)
  /\ toast' = NoToast
  /\ UNCHANGED <<selectedFile, previewUrl, scanStage, analysisResult,
                 isDragging, timers, urls>>
  /\ scoreView' = RenderedScore(scanStage', analysisResult')

\* <Select onValueChange={setSelectedBreed}>, rendered in the upload view only.
setSelectedBreed(b) ==
  /\ scanStage = "upload"
  /\ selectedBreed' = b
  /\ event' = Event("setSelectedBreed", null)
  /\ toast' = NoToast
  /\ UNCHANGED <<selectedFile, previewUrl, scanStage, analysisResult,
                 isDragging, timers, urls>>
  /\ scoreView' = RenderedScore(scanStage', analysisResult')

\* Fault injection for startAnalysis: the setTimeout call is missing.
startAnalysis_noTimer ==
  /\ scanStage = "upload"
  /\ event' = Event("startAnalysis", null)
  /\ toast' = NoToast
  /\ IF ~CanStart
       THEN UNCHANGED <<scanStage, timers>>
       ELSE scanStage' = "analyzing" /\ UNCHANGED timers
  /\ UNCHANGED <<selectedBreed, selectedFile, previewUrl, analysisResult,
                 isDragging, urls>>
  /\ scoreView' = RenderedScore(scanStage', analysisResult')

\* Fault injection for startAnalysis: setScanStage('analyzing') is missing.
startAnalysis_noStage ==
  /\ scanStage = "upload"
  /\ event' = Event("startAnalysis", null)
  /\ toast' = NoToast
  /\ IF ~CanStart
       THEN UNCHANGED timers
       ELSE timers' = Append(timers, selectedBreed)
  /\ UNCHANGED <<selectedBreed, selectedFile, previewUrl, scanStage,
                 analysisResult, isDragging, urls>>
  /\ scoreView' = RenderedScore(scanStage', analysisResult')

\* Fault injection for startAnalysis: setTimeout is called twice.
startAnalysis_twoTimers ==
  /\ scanStage = "upload"
  /\ event' = Event("startAnalysis", null)
  /\ toast' = NoToast
  /\ IF ~CanStart
       THEN UNCHANGED <<scanStage, timers>>
       ELSE /\ scanStage' = "analyzing"
            /\ timers' = Append(Append(timers, selectedBreed), selectedBreed)
  /\ UNCHANGED <<selectedBreed, selectedFile, previewUrl, analysisResult,
                 isDragging, urls>>
  /\ scoreView' = RenderedScore(scanStage', analysisResult')

\* startAnalysis up to and including the setTimeout call.  The handler is
\* attached to the button of the upload view; the callback closes over the
\* selectedBreed of the render that started it.
startAnalysis ==
  /\ scanStage = "upload"
  /\ event' = Event("startAnalysis", null)
  /\ toast' = NoToast
  /\ IF ~CanStart
       THEN UNCHANGED <<scanStage, timers>>
       ELSE scanStage' = "analyzing" /\ timers' = Append(timers, selectedBreed)
  /\ UNCHANGED <<selectedBreed, selectedFile, previewUrl, analysisResult,
                 isDragging, urls>>
  /\ scoreView' = RenderedScore(scanStage', analysisResult')

\* The browser's timer task: the oldest pending timer is taken off the queue
\* (timers of equal delay run in the order they were scheduled).
timerDue == timers # <<>> /\ timers' = Tail(timers)

\* The setTimeout callback of startAnalysis, run when its timer is due.
timerCallback ==
  /\ timerDue
  /\ scanStage' = "results"
  /\ analysisResult' \in FinalResults(BaseResult(Head(timers)))
  /\ toast' = "Analysis Complete"
  /\ event' = Event("timer", null)
  /\ UNCHANGED <<selectedBreed, selectedFile, previewUrl, isDragging, urls>>
  /\ scoreView' = RenderedScore(scanStage', analysisResult')

\* Fault injection for resetScanner: setAnalysisResult(null) is missing.
resetScanner_keepResult ==
  /\ scanStage = "results" /\ analysisResult # null
  /\ scanStage' = "upload"
  /\ selectedFile' = null
  /\ previewUrl' = NoUrl
  /\ selectedBreed' = NoBreed
  /\ urls' = IF previewUrl # NoUrl
               THEN [urls EXCEPT ![previewUrl] = @ + 1] ELSE urls
  /\ event' = Event("resetScanner", null)
  /\ toast' = NoToast
  /\ UNCHANGED <<analysisResult, isDragging, timers>>
  /\ scoreView' = RenderedScore(scanStage', analysisResult')

\* Fault injection for resetScanner: URL.revokeObjectURL is not called.
resetScanner_noRevoke ==
  /\ scanStage = "results" /\ analysisResult # null
  /\ scanStage' = "upload"
  /\ selectedFile' = null
  /\ previewUrl' = NoUrl
  /\ analysisResult' = null
  /\ selectedBreed' = NoBreed
  /\ event' = Event("resetScanner", null)
  /\ toast' = NoToast
  /\ UNCHANGED <<isDragging, timers, urls>>
  /\ scoreView' = RenderedScore(scanStage', analysisResult')

\* Fault injection for resetScanner: setScanStage('upload') is missing.
resetScanner_keepStage ==
  /\ scanStage = "results" /\ analysisResult # null
  /\ selectedFile' = null
  /\ previewUrl' = NoUrl
  /\ analysisResult' = null
  /\ selectedBreed' = NoBreed
  /\ urls' = IF previewUrl # NoUrl
               THEN [urls EXCEPT ![previewUrl] = @ + 1] ELSE urls
  /\ event' = Event("resetScanner", null)
  /\ toast' = NoToast
  /\ UNCHANGED <<scanStage, isDragging, timers>>
  /\ scoreView' = RenderedScore(scanStage', analysisResult')

\* Fault injection for resetScanner: every URL ever created is revoked.
resetScanner_revokeAll ==
  /\ scanStage = "results" /\ analysisResult # null
  /\ scanStage' = "upload"
  /\ selectedFile' = null
  /\ previewUrl' = NoUrl
  /\ analysisResult' = null
  /\ selectedBreed' = NoBreed
  /\ urls' = [u \in DOMAIN urls |-> urls[u] + 1]
  /\ event' = Event("resetScanner", null)
  /\ toast' = NoToast
  /\ UNCHANGED <<isDragging, timers>>
  /\ scoreView' = RenderedScore(scanStage', analysisResult')

\* Fault injection for resetScanner: setPreviewUrl('') is missing.
resetScanner_keepPreview ==
  /\ scanStage = "results" /\ analysisResult # null
  /\ scanStage' = "upload"
  /\ selectedFile' = null
  /\ analysisResult' = null
  /\ selectedBreed' = NoBreed
  /\ urls' = IF previewUrl # NoUrl
               THEN [urls EXCEPT ![previewUrl] = @ + 1] ELSE urls
  /\ event' = Event("resetScanner", null)
  /\ toast' = NoToast
  /\ UNCHANGED <<previewUrl, isDragging, timers>>
  /\ scoreView' = RenderedScore(scanStage', analysisResult')

\* The "New Scan" button, rendered when scanStage === 'results' && analysisResult.
resetScanner ==
  /\ scanStage = "results" /\ analysisResult # null
  /\ scanStage' = "upload"
  /\ selectedFile' = null
  /\ previewUrl' = NoUrl
  /\ analysisResult' = null
  /\ selectedBreed' = NoBreed
  /\ urls' = IF previewUrl # NoUrl
               THEN [urls EXCEPT ![previewUrl] = @ + 1] ELSE urls
  /\ event' = Event("resetScanner", null)
  /\ toast' = NoToast
  /\ UNCHANGED <<isDragging, timers>>
  /\ scoreView' = RenderedScore(scanStage', analysisResult')

\* Fault injection for saveResultsCall: the early return is missing.
saveResultsCall_noGuard ==
  /\ toast' = "Results Saved"
  /\ event' = Event("saveResults", null)
  /\ UNCHANGED <<selectedBreed, selectedFile, previewUrl, scanStage,
                 analysisResult, isDragging, timers, urls>>
  /\ scoreView' = RenderedScore(scanStage', analysisResult')

\* The body of saveResults.
saveResultsCall ==
  /\ toast' = IF analysisResult = null THEN NoToast ELSE "Results Saved"
  /\ event' = Event("saveResults", null)
  /\ UNCHANGED <<selectedBreed, selectedFile, previewUrl, scanStage,
                 analysisResult, isDragging, timers, urls>>
  /\ scoreView' = RenderedScore(scanStage', analysisResult')

\* The "Save to BPA System" button, rendered in the results view.
saveResults ==
  /\ scanStage = "results" /\ analysisResult # null
  /\ saveResultsCall

\* saveResults called while its button is not rendered.
saveResultsElsewhere ==
  /\ ~(scanStage = "results" /\ analysisResult # null)
  /\ saveResultsCall

\* The results view rendered for the analysisResult it is given.
renderResults ==
  /\ scoreView' = RenderedScore(scanStage, analysisResult)
  /\ UNCHANGED <<selectedBreed, selectedFile, previewUrl, scanStage,
                 analysisResult, isDragging, timers, urls, event, toast>>

Next ==
  \/ \E file \in Files : onChange(file)
  \/ \E n \in 0..MaxDropFiles, first \in Files : handleDrop(n, first)
  \/ handleDragOver
  \/ handleDragLeave
  \/ \E b \in breeds : setSelectedBreed(b)
  \/ startAnalysis
  \/ timerCallback
  \/ resetScanner
  \/ saveResults

Spec == Init /\ [][Next]_vars

\* The browser runs a scheduled timer callback once its delay has elapsed:
\* a pending timer does not stay on the queue forever.
LiveSpec == Spec /\ WF_vars(timerCallback)

\* The handlers as functions: Next, and saveResults called in any state.
HandlerNext == Next \/ saveResultsElsewhere

HandlerSpec == Init /\ [][HandlerNext]_vars

\* The scores the score card is probed with.
ScoreInputs == (0 - ScoreMargin)..(100 + ScoreMargin)

\* The results view about to be rendered for a result with any score.
ScoreInit ==
  /\ selectedBreed = "sahiwal"
  /\ selectedFile = [type |-> TypeImagePng, size |-> 1]
  /\ previewUrl = 1
  /\ scanStage = "results"
  /\ analysisResult \in {[sampleResults["sahiwal"] EXCEPT !.score = s] : s \in ScoreInputs}
  /\ isDragging = FALSE
  /\ timers = <<>>
  /\ urls = <<0>>
  /\ event = Event("timer", null)
  /\ toast = "Analysis Complete"
  /\ scoreView = null

ScoreNext == renderResults

ScoreSpec == ScoreInit /\ [][ScoreNext]_vars

(* ------------------------------ properties ----------------------------- *)

\* The file the last event handed to handleFileSelect, or null.
Rejected(file) ==
  file # null /\ (~StartsWith(file.type, ImagePrefix) \/ file.size > 10 * 1024 * 1024)

\* URL u was handed out by URL.createObjectURL.
Created(u) == u \in 1..Len(urls)

\* URL u was passed to URL.revokeObjectURL at least once.
Revoked(u) == Created(u) /\ urls[u] > 0

\* C1: the stage goes from upload to analyzing only in a startAnalysis step
\* taken with a breed selected and a file stored; a startAnalysis step taken
\* without one of them leaves the stage at upload, schedules no timer and
\* changes no other state variable.
C1_StartOnlyWhenReady ==
  [][ /\ (scanStage = "upload" /\ scanStage' = "analyzing")
           => /\ event'.op = "startAnalysis"
              /\ selectedBreed # NoBreed
              /\ selectedFile # null
      /\ (event'.op = "startAnalysis" /\ (selectedBreed = NoBreed \/ selectedFile = null))
           => /\ scanStage' = "upload"
              /\ UNCHANGED <<selectedBreed, selectedFile, previewUrl, scanStage,
                             analysisResult, isDragging, timers, urls>>
    ]_vars

C1_Witness ==
  /\ event.op = "startAnalysis"
  /\ scanStage = "analyzing"
  /\ selectedBreed # NoBreed
  /\ selectedFile # null

\* C2: an analysis result exists exactly when the stage is results.
C2_ResultIffResults == (analysisResult # null) <=> (scanStage = "results")

\* A second cycle has reached upload again: one URL was revoked by a reset.
C2_Witness ==
  /\ scanStage = "upload"
  /\ analysisResult = null
  /\ event.op = "resetScanner"
  /\ \E u \in 1..Len(urls) : Revoked(u)

\* C3: every preview URL that was created and is not the current previewUrl
\* has been revoked.
C3_NoLeakedPreview ==
  \A u \in 1..Len(urls) : u # previewUrl => Revoked(u)

\* C4: a handleFileSelect call with a file whose type does not start with
\* "image/" emits "Invalid File Type", stores no file, creates no preview
\* and leaves the stage at upload.
C4_NonImageRejected ==
  [][ (event'.file # null /\ ~StartsWith(event'.file.type, ImagePrefix))
        => /\ toast' = "Invalid File Type"
           /\ UNCHANGED <<selectedFile, previewUrl, urls>>
           /\ scanStage' = "upload"
    ]_vars

\* A type that contains "image/" without starting with it was turned down.
C4_Witness ==
  /\ event.file # null
  /\ event.file.type = TypeXImage
  /\ event.file.size <= 10 * 1024 * 1024
  /\ toast = "Invalid File Type"
  /\ scanStage = "upload"

\* C5: a handleFileSelect call with a file larger than 10 MiB, of whatever
\* type, is turned down with a notification: the file is not stored and no
\* preview URL is created; no stored file is ever larger than 10 MiB.
C5_TooLargeRejected ==
  /\ [][ (event'.file # null /\ event'.file.size > 10 * 1024 * 1024)
           => /\ toast' \in {"Invalid File Type", "File Too Large"}
              /\ UNCHANGED <<selectedFile, previewUrl, urls>>
       ]_vars
  /\ [](selectedFile # null => selectedFile.size <= 10 * 1024 * 1024)

\* An image one byte over the limit was turned down.
C5_Witness ==
  /\ event.file # null
  /\ StartsWith(event.file.type, ImagePrefix)
  /\ event.file.size = 10 * 1024 * 1024 + 1
  /\ toast = "File Too Large"

\* C6: a rejected handleFileSelect call leaves selectedFile, previewUrl,
\* selectedBreed, scanStage and analysisResult as they were.
C6_RejectionKeepsState ==
  [][ Rejected(event'.file)
        => UNCHANGED <<selectedFile, previewUrl, selectedBreed, scanStage,
                       analysisResult>>
    ]_vars

\* A file was rejected while an earlier accepted file and its preview are held.
C6_Witness ==
  /\ Rejected(event.file)
  /\ selectedFile # null
  /\ selectedFile # event.file
  /\ previewUrl # NoUrl
  /\ selectedBreed # NoBreed

\* C7: in every results state the result has a score within 70..100, a height
\* of at least 120 and a length of at least 140.
C7_ResultInRange ==
  scanStage = "results"
    => /\ analysisResult # null
       /\ analysisResult.score \in 70..100
       /\ analysisResult.height >= 120
       /\ analysisResult.length >= 140

\* The timer callback has just produced the lowest score the table allows.
C7_Witness ==
  /\ scanStage = "results"
  /\ event.op = "timer"
  /\ analysisResult.score = 80

\* C8: a resetScanner step leads from results to upload with file, preview,
\* breed and result cleared, and the preview URL that was current has been
\* revoked.
C8_ResetClears ==
  [][ event'.op = "resetScanner"
        => /\ scanStage = "results"
           /\ scanStage' = "upload"
           /\ selectedFile' = null
           /\ previewUrl' = NoUrl
           /\ selectedBreed' = NoBreed
           /\ analysisResult' = null
           /\ previewUrl # NoUrl
           /\ previewUrl \in 1..Len(urls')
           /\ urls'[previewUrl] > 0
    ]_vars

\* A reset has happened and the last URL created is revoked.
C8_Witness ==
  /\ event.op = "resetScanner"
  /\ scanStage = "upload"
  /\ selectedFile = null
  /\ Len(urls) > 0
  /\ Revoked(Len(urls))

\* C9: every analyzing state is followed by a results state with a result
\* set; while the stage is analyzing exactly one timer is pending and the
\* only step that can be taken is the timer callback.
C9_AnalyzingLeadsToResults ==
  /\ (scanStage = "analyzing") ~> (scanStage = "results" /\ analysisResult # null)
  /\ [](scanStage = "analyzing" => Len(timers) = 1)
  /\ [][scanStage = "analyzing" => event'.op = "timer" /\ scanStage' = "results"]_vars

C9_Witness ==
  /\ scanStage = "analyzing"
  /\ Len(timers) = 1
  /\ Head(timers) = selectedBreed

\* C10: in every results state the result is the baseline of the selected
\* breed with height, length and score each moved by at most 5, and breed
\* name and confidence copied; for murrah the height is within 130..140,
\* the length within 143..153, the score within 87..97 and the confidence 96.
C10_ResultNearBaseline ==
  scanStage = "results"
    => /\ selectedBreed \in breeds
       /\ analysisResult.height - sampleResults[selectedBreed].height \in -5..5
       /\ analysisResult.length - sampleResults[selectedBreed].length \in -5..5
       /\ analysisResult.score - sampleResults[selectedBreed].score \in -5..5
       /\ analysisResult.confidence = sampleResults[selectedBreed].confidence
       /\ analysisResult.breed = sampleResults[selectedBreed].breed
       /\ selectedBreed = "murrah"
            => /\ analysisResult.height \in 130..140
               /\ analysisResult.length \in 143..153
               /\ analysisResult.score \in 87..97
               /\ analysisResult.confidence = 96

\* The three perturbations are at different extremes in one result.
C10_Witness ==
  /\ scanStage = "results"
  /\ selectedBreed = "murrah"
  /\ analysisResult.height = 140
  /\ analysisResult.length = 143
  /\ analysisResult.score = 97
  /\ analysisResult.confidence = 96

\* Number of stage changes needed to be in the upload stage.
StagesToUpload ==
  CASE scanStage = "upload" -> 0
    [] scanStage = "results" -> 1
    [] scanStage = "analyzing" -> 2

\* Number of events needed to be in the results stage.
StepsToResults ==
  CASE scanStage = "results" -> 0
    [] scanStage = "analyzing" -> 1
    [] scanStage = "upload" -> 2 + (IF selectedFile = null THEN 1 ELSE 0)
                                 + (IF selectedBreed = NoBreed THEN 1 ELSE 0)

StepTowardsUpload == Next /\ StagesToUpload' < StagesToUpload

StepTowardsResults == Next /\ StepsToResults' < StepsToResults

\* C11: every reachable state has a successor; every state outside upload
\* has a step that brings it nearer to upload, and every state outside
\* results has a step that brings it nearer to results (as long as
\* URL.createObjectURL can still hand out a URL within the bound MaxUrls),
\* so upload and then a new results stage can be reached from everywhere.
C11_CycleRepeats ==
  /\ ENABLED Next
  /\ StagesToUpload > 0 => ENABLED StepTowardsUpload
  /\ (StepsToResults > 0 /\ (selectedFile # null \/ Len(urls) < MaxUrls))
       => ENABLED StepTowardsResults

\* The results stage of a second cycle: an earlier cycle ended in a reset.
C11_Witness ==
  /\ scanStage = "results"
  /\ event.op = "timer"
  /\ \E u \in 1..Len(urls) : Revoked(u) /\ u # previewUrl

\* C12: no preview URL is revoked more than once; a resetScanner step makes
\* exactly one revokeObjectURL call, on the preview URL that exists at that
\* moment, and no other step revokes anything.
C12_RevokedOnce ==
  /\ [](\A u \in 1..Len(urls) : urls[u] <= 1)
  /\ [][ /\ event'.op = "resetScanner"
              => /\ previewUrl # NoUrl
                 /\ urls' = [urls EXCEPT ![previewUrl] = 1]
         /\ event'.op # "resetScanner"
              => \A u \in 1..Len(urls) : urls'[u] = urls[u]
       ]_vars

\* Two resets have happened, each revoked its own URL once, and a replaced
\* URL in between was left alone.
C12_Witness ==
  /\ event.op = "resetScanner"
  /\ Len(urls) = 3
  /\ urls[1] = 1
  /\ urls[2] = 0
  /\ urls[3] = 1

\* C13: a handleFileSelect call with an image of at most 10 MiB stores that
\* file, sets previewUrl to a URL created in this step, emits "Image
\* Uploaded" and leaves selectedBreed, scanStage and analysisResult alone.
C13_AcceptedUpload ==
  [][ ( /\ event'.file # null
        /\ StartsWith(event'.file.type, ImagePrefix)
        /\ event'.file.size <= 10 * 1024 * 1024 )
        => /\ selectedFile' = event'.file
           /\ Len(urls') = Len(urls) + 1
           /\ previewUrl' = Len(urls')
           /\ urls'[previewUrl'] = 0
           /\ previewUrl' # previewUrl
           /\ toast' = "Image Uploaded"
           /\ UNCHANGED <<selectedBreed, scanStage, analysisResult>>
    ]_vars

\* A file of exactly 10 MiB replaced an earlier upload.
C13_Witness ==
  /\ event.file # null
  /\ event.file.size = 10 * 1024 * 1024
  /\ selectedFile = event.file
  /\ toast = "Image Uploaded"
  /\ previewUrl = 2
  /\ urls = <<0, 0>>
  /\ selectedBreed # NoBreed

\* C14: the label of the score card is "Excellent" from 90, "Good" from 80
\* to 89, "Average" from 70 to 79 and "Poor" below 70, for every score, and
\* the colour class changes at the same three thresholds.
C14_ScoreBands ==
  scoreView # null
    => /\ scoreView.score = analysisResult.score
       /\ scoreView.score >= 90
            => scoreView.label = "Excellent" /\ scoreView.color = "text-success"
       /\ (scoreView.score >= 80 /\ scoreView.score < 90)
            => scoreView.label = "Good" /\ scoreView.color = "text-primary"
       /\ (scoreView.score >= 70 /\ scoreView.score < 80)
            => scoreView.label = "Average" /\ scoreView.color = "text-yellow-600"
       /\ scoreView.score < 70
            => scoreView.label = "Poor" /\ scoreView.color = "text-destructive"

\* The lowest score that is not "Poor" has been rendered.
C14_Witness ==
  /\ scoreView # null
  /\ scoreView.score = 70
  /\ scoreView.label = "Average"

\* C15: a saveResults call changes no state variable; it emits "Results
\* Saved" when a result exists and nothing when analysisResult is null.
C15_SaveChangesNothing ==
  [][ event'.op = "saveResults"
        => /\ UNCHANGED <<scanStage, selectedFile, previewUrl, selectedBreed,
                          analysisResult, isDragging, timers, urls>>
           /\ analysisResult # null => toast' = "Results Saved"
           /\ analysisResult = null => toast' = NoToast
    ]_vars

\* saveResults ran in the results stage and announced the save.
C15_Witness ==
  /\ event.op = "saveResults"
  /\ scanStage = "results"
  /\ analysisResult # null
  /\ toast = "Results Saved"

\* C16: the stage changes only from upload to analyzing in a startAnalysis
\* step, from analyzing to results in a timer step and from results to
\* upload in a resetScanner step; the timer callback runs only while the
\* stage is analyzing.
C16_LinearStages ==
  [][ /\ scanStage' # scanStage
           => \/ /\ scanStage = "upload" /\ scanStage' = "analyzing"
                 /\ event'.op = "startAnalysis"
              \/ /\ scanStage = "analyzing" /\ scanStage' = "results"
                 /\ event'.op = "timer"
              \/ /\ scanStage = "results" /\ scanStage' = "upload"
                 /\ event'.op = "resetScanner"
      /\ event'.op = "timer" => scanStage = "analyzing"
    ]_vars

\* The stage has gone round once and the timer has run a second time.
C16_Witness ==
  /\ scanStage = "results"
  /\ event.op = "timer"
  /\ Len(urls) >= 2
  /\ Revoked(1)

\* C17: at most one timer is pending, and one is pending exactly when the
\* stage is analyzing.
C17_OneTimer ==
  /\ Len(timers) <= 1
  /\ (Len(timers) = 1) <=> (scanStage = "analyzing")

\* A timer is pending in the analyzing stage of a later cycle.
C17_Witness ==
  /\ scanStage = "analyzing"
  /\ Len(timers) = 1
  /\ \E u \in 1..Len(urls) : Revoked(u)

\* C18: in the analyzing and results stages a file, one of the four breeds
\* and a preview URL are set, and every step that ends in one of these stages
\* (the startAnalysis step included) leaves the three unchanged.
C18_InputsFixed ==
  /\ [](scanStage \in {"analyzing", "results"}
          => /\ selectedFile # null
             /\ selectedBreed \in breeds
             /\ previewUrl # NoUrl)
  /\ [][scanStage' \in {"analyzing", "results"}
          => UNCHANGED <<selectedFile, selectedBreed, previewUrl>>]_vars

\* The results are on screen, saved, with the inputs of the start still set.
C18_Witness ==
  /\ scanStage = "results"
  /\ event.op = "saveResults"
  /\ selectedFile # null
  /\ selectedBreed = "gir"
  /\ previewUrl = Len(urls)

\* C19: a non-empty previewUrl is a URL that was created and not revoked.
C19_PreviewLive ==
  previewUrl # NoUrl => Created(previewUrl) /\ urls[previewUrl] = 0

\* A preview is shown in the upload stage after an earlier URL was revoked.
C19_Witness ==
  /\ scanStage = "upload"
  /\ previewUrl # NoUrl
  /\ \E u \in 1..Len(urls) : Revoked(u)

\* C20: the score card of a results state never shows "Poor" nor the
\* destructive colour: it shows "Excellent", "Good" or "Average".
C20_NeverPoor ==
  scanStage = "results"
    => /\ scoreView # null
       /\ scoreView.score = analysisResult.score
       /\ scoreView.label \in {"Excellent", "Good", "Average"}
       /\ scoreView.color # "text-destructive"

\* The lowest reachable score is on screen.
C20_Witness ==
  /\ scanStage = "results"
  /\ scoreView # null
  /\ scoreView.score = 80
  /\ scoreView.label = "Good"

====
